---- MODULE Spec2Model ----
(***************************************************************************)
(* A model of recording-daemon/mix.c: the audio mixer session of the       *)
(* recording daemon (struct mix_s and mix_new, mix_get_index, mix_config,  *)
(* mix_add with its helpers mix_shutdown, mix_silence_fill_idx_upto,       *)
(* mix_silence_fill and mix_resample_frame).                               *)
(*                                                                         *)
(* The libavfilter graph, libavresample and the output sink are external:  *)
(* every call into them that can fail does so nondeterministically, the    *)
(* outcome being an input of the action that makes the call.               *)
(*                                                                         *)
(* uint64_t arithmetic is kept modular, at a reduced width of PtsBits      *)
(* bits, so that (uint64_t) -1LL is PtsMod - 1 and out_pts - frame->pts    *)
(* wraps exactly where the C expression does.                              *)
(***************************************************************************)
EXTENDS Integers, Sequences, FiniteSets, TLC

\* mix.c:15
NUM_INPUTS == 4

\* width of the modelled uint64_t
PtsBits == 10
\* number of mix_add calls offered in one behaviour
MaxCalls == 3
\* number of avfilter_graph_alloc calls offered in one behaviour
MaxBuilds == 2
\* width of the modelled unsigned int of next_idx
IdxBits == 3
\* number of mix_get_index calls offered in one behaviour
MaxIdxCalls == 9

RECURSIVE Pow2(_)
Pow2(n) == IF n = 0 THEN 1 ELSE 2 * Pow2(n - 1)

PtsMod == Pow2(PtsBits)

IdxMod == Pow2(IdxBits)

\* conversion to uint64_t
U64(x) == x % PtsMod

\* (uint64_t) -1LL
UNSET == U64(-1)

\* C integer division (truncation toward zero)
CDiv(a, b) == IF a >= 0 THEN a \div b ELSE -((-a) \div b)

MIN(a, b) == IF a < b THEN a ELSE b

Inputs == 0 .. (NUM_INPUTS - 1)

VARIABLES
    mix,          \* struct mix_s
    avf,          \* what libavfilter holds for mix.graph: links, configuration, source queues
    allocs,       \* number of filter graphs allocated so far (the next graph's identity)
    last,         \* what the last call did: its arguments, result and calls to the outside
    idx_returned, \* the values mix_get_index has returned, in call order
    first_offs,   \* per input: the offset computed for its first accepted frame, or -1
    caller,       \* per input: the next contiguous source timestamp, -1 before any frame,
                  \* -2 once the caller has submitted a non-contiguous timestamp
    hung,         \* TRUE once a call is stuck in a loop that makes no progress, or
                  \* has died on a frame it must not use: the call never returns
    calls         \* number of mix_add calls made so far

vars == <<mix, avf, allocs, last, idx_returned, first_offs, caller, hung, calls>>

NoSilence == [st |-> "NULL", cap |-> 0, rate |-> 0, ch |-> 0]

\* the graph-internal state of an absent (freed) graph
NoGraph ==
    [src_linked |-> [i \in Inputs |-> FALSE],
     sink_linked |-> FALSE,
     configured |-> FALSE,
     src_end |-> [i \in Inputs |-> -1]]

\* mix_new: g_slice_alloc0 zeroes the struct
mix_new ==
    [clockrate |-> -1,
     channels |-> -1,
     graph |-> 0,
     src_ctxs |-> [i \in Inputs |-> FALSE],
     pts_offs |-> [i \in Inputs |-> UNSET],
     in_pts |-> [i \in Inputs |-> 0],
     amix_ctx |-> FALSE,
     sink_ctx |-> FALSE,
     next_idx |-> 0,
     sink_frame |-> "valid",
     avresample |-> "NULL",
     swr_frame |-> "NULL",
     swr_buffers |-> 0,
     out_pts |-> 0,
     silence_frame |-> NoSilence]

NoCall ==
    [op |-> "new", ret |-> 0, err |-> "", idx |-> 0, pts |-> 0, nb |-> 0,
     rate |-> 0, ch |-> 0, fail |-> 0, noop |-> FALSE,
     out0 |-> 0, first |-> FALSE, fpts |-> 0, next_pts |-> 0,
     accepted |-> FALSE, forwarded |-> FALSE, aborted |-> FALSE,
     fwd |-> <<>>, freed |-> <<>>, pulls |-> 0, sunk |-> <<>>, frame |-> "NULL",
     drain |-> <<>>, convs |-> 0, allocs_swr |-> 0, swr0 |-> 0,
     in0 |-> [i \in Inputs |-> 0]]

Init ==
    /\ mix = mix_new
    /\ avf = NoGraph
    /\ allocs = 0
    /\ last = NoCall
    /\ idx_returned = <<>>
    /\ first_offs = [i \in Inputs |-> -1]
    /\ caller = [i \in Inputs |-> -1]
    /\ hung = FALSE
    /\ calls = 0

----------------------------------------------------------------------------
\* mix_get_index

\* an allocator that forgets the increment
next_idx_stuck(m) == m.next_idx

\* next_idx after the post-increment of an unsigned int (no capacity test, no
\* failure path)
next_idx_after(m) == (m.next_idx + 1) % IdxMod

mix_get_index ==
    /\ ~hung
    /\ Len(idx_returned) < MaxIdxCalls
    /\ idx_returned' = Append(idx_returned, mix.next_idx)
    /\ mix' = [mix EXCEPT !.next_idx = next_idx_after(mix)]
    /\ last' = [NoCall EXCEPT !.op = "get_index", !.ret = mix.next_idx]
    /\ UNCHANGED <<avf, allocs, first_offs, caller, hung, calls>>

----------------------------------------------------------------------------
\* mix_shutdown and mix_config.  A working state w is [mix, avf, allocs].

\* a mix_shutdown that leaves the source endpoints in place
mix_shutdown_keep_src(w) ==
    [w EXCEPT !.mix = [w.mix EXCEPT !.amix_ctx = FALSE,
                                    !.sink_ctx = FALSE,
                                    !.avresample = "NULL",
                                    !.graph = 0],
              !.avf = [NoGraph EXCEPT !.src_end = w.avf.src_end]]

mix_shutdown(w) ==
    [w EXCEPT !.mix = [w.mix EXCEPT !.amix_ctx = FALSE,
                                    !.sink_ctx = FALSE,
                                    !.src_ctxs = [i \in Inputs |-> FALSE],
                                    !.avresample = "NULL",
                                    !.graph = 0],
              !.avf = NoGraph]

\* a comparison that never finds the format unchanged
format_mismatch_always(m, clockrate, channels) == TRUE

\* the "anything to do?" test
format_mismatch(m, clockrate, channels) ==
    m.clockrate # clockrate \/ m.channels # channels

\* the calls of the build that can fail, in program order
BuildSteps ==
    <<[call |-> "avfilter_graph_alloc", i |-> 0],
      [call |-> "avfilter_get_by_name amix", i |-> 0],
      [call |-> "avfilter_graph_create_filter amix", i |-> 0],
      [call |-> "avfilter_get_by_name abuffer", i |-> 0]>>
    \o
    [k \in 1 .. (2 * NUM_INPUTS) |->
        IF k % 2 = 1
        THEN [call |-> "avfilter_graph_create_filter abuffer", i |-> (k - 1) \div 2]
        ELSE [call |-> "avfilter_link abuffer amix", i |-> (k - 1) \div 2]]
    \o
    <<[call |-> "avfilter_get_by_name abuffersink", i |-> 0],
      [call |-> "avfilter_graph_create_filter abuffersink", i |-> 0],
      [call |-> "avfilter_link amix abuffersink", i |-> 0],
      [call |-> "avfilter_graph_config", i |-> 0]>>

\* the effect of one successful build call
BuildStep(w, s) ==
    CASE s.call = "avfilter_graph_alloc" ->
            [w EXCEPT !.mix.graph = w.allocs + 1, !.allocs = w.allocs + 1]
      [] s.call = "avfilter_graph_create_filter amix" ->
            [w EXCEPT !.mix.amix_ctx = TRUE]
      [] s.call = "avfilter_graph_create_filter abuffer" ->
            [w EXCEPT !.mix.src_ctxs[s.i] = TRUE]
      [] s.call = "avfilter_link abuffer amix" ->
            [w EXCEPT !.avf.src_linked[s.i] = TRUE]
      [] s.call = "avfilter_graph_create_filter abuffersink" ->
            [w EXCEPT !.mix.sink_ctx = TRUE]
      [] s.call = "avfilter_link amix abuffersink" ->
            [w EXCEPT !.avf.sink_linked = TRUE]
      [] s.call = "avfilter_graph_config" ->
            [w EXCEPT !.avf.configured = TRUE]
      [] OTHER -> w

\* the build from step k on; the call at position fail (0: none) fails
RECURSIVE mix_config_build(_, _, _)
mix_config_build(w, k, fail) ==
    IF k > Len(BuildSteps) THEN [w |-> w, ret |-> 0]
    ELSE IF k = fail THEN [w |-> mix_shutdown(w), ret |-> -1]
    ELSE mix_config_build(BuildStep(w, BuildSteps[k]), k + 1, fail)

mix_config_result(w, clockrate, channels, fail) ==
    IF ~format_mismatch(w.mix, clockrate, channels)
    THEN [w |-> w, ret |-> 0, noop |-> TRUE]
    ELSE LET w1 == mix_shutdown(w)
             w2 == [w1 EXCEPT !.mix.clockrate = clockrate, !.mix.channels = channels]
             r  == mix_config_build(w2, 1, fail)
         IN  [w |-> r.w, ret |-> r.ret, noop |-> FALSE]

\* one mix_config call with arguments from the given sets; the build call at
\* position fail (0: none) fails
mix_config_call(Rates, Chans, Fails) ==
    /\ ~hung
    /\ \E clockrate \in Rates, channels \in Chans, fail \in Fails :
          /\ format_mismatch(mix, clockrate, channels) => allocs < MaxBuilds
          /\ \E r \in {mix_config_result([mix |-> mix, avf |-> avf, allocs |-> allocs],
                                         clockrate, channels, fail)} :
                 /\ mix' = r.w.mix
                 /\ avf' = r.w.avf
                 /\ allocs' = r.w.allocs
                 /\ last' = [NoCall EXCEPT !.op = "config", !.ret = r.ret,
                                           !.rate = clockrate, !.ch = channels,
                                           !.fail = IF r.noop THEN 0 ELSE fail,
                                           !.noop = r.noop]
    /\ UNCHANGED <<idx_returned, first_offs, caller, hung, calls>>

----------------------------------------------------------------------------
\* mix_silence_fill_idx_upto and mix_silence_fill.
\* A working state w of mix_add is
\*   [mix, avf, fwd, nsil, aborted, hung, freed, pulls, sunk, frame, convs, allocs_swr]
\* fwd: the frames written to the buffer sources, nsil: the number of silence
\* writes so far, frame: what the local variable frame points to.
\* env holds the outcomes of the outside calls of this mix_add.

\* one write to a buffer source, as the source sees it
Forward(w, idx, kind, pts, nb, ok) ==
    [w EXCEPT !.fwd = Append(w.fwd, [idx |-> idx, kind |-> kind, pts |-> pts, nb |-> nb,
                                     ok |-> ok, prev_end |-> w.avf.src_end[idx],
                                     tmpl |-> w.mix.silence_frame]),
              !.avf.src_end[idx] = IF ok THEN U64(pts + nb) ELSE w.avf.src_end[idx]]

\* av_frame_get_buffer: fails without memory and for a frame of no samples
av_frame_get_buffer_ok(nb_samples, mem_ok) == mem_ok /\ nb_samples > 0

\* a pass that writes a whole chunk whatever is left to fill
silence_fill_body_unclamped(w, idx, upto, env) ==
    LET pts == w.mix.in_pts[idx]
        nb  == CDiv(w.mix.clockrate, 100)
    IN  Forward([w EXCEPT !.mix.in_pts[idx] = U64(pts + nb), !.nsil = w.nsil + 1,
                          !.mix.silence_frame.st = "ok"],
                idx, "silence", pts, nb, TRUE)

\* one pass through the body of the while loop of mix_silence_fill_idx_upto
silence_fill_body(w, idx, upto, env) ==
    LET silence_samples == CDiv(w.mix.clockrate, 100)
        created == w.mix.silence_frame.st = "NULL"
        got     == av_frame_get_buffer_ok(silence_samples, env.buf_ok)
        tmpl    == IF created
                   THEN [st |-> IF got THEN "ok" ELSE "nobuf",
                         cap |-> IF got THEN silence_samples ELSE 0,
                         rate |-> w.mix.clockrate,
                         ch |-> w.mix.channels]
                   ELSE w.mix.silence_frame
        w1      == [w EXCEPT !.mix.silence_frame = tmpl]
    IN
    IF created /\ ~got THEN [w1 EXCEPT !.aborted = TRUE]   \* return
    ELSE
      LET pts == w1.mix.in_pts[idx]
          nb  == MIN(silence_samples, upto - pts)
          ok  == env.sil_fail # w1.nsil + 1
          w2  == [w1 EXCEPT !.mix.in_pts[idx] = U64(pts + nb), !.nsil = w1.nsil + 1]
          w3  == Forward(w2, idx, "silence", pts, nb, ok)
      IN  IF nb = 0
          THEN [w3 EXCEPT !.hung = TRUE]   \* in_pts[idx] stays below upto for ever
          ELSE w3

\* the while loop, run for up to 2^k passes (every pass but a stuck one advances
\* in_pts[idx] by at least one, so 2^PtsBits passes run the loop to its end)
RECURSIVE silence_fill_loop(_, _, _, _, _)
silence_fill_loop(w, idx, upto, env, k) ==
    IF w.hung \/ w.aborted \/ ~(w.mix.in_pts[idx] < upto) THEN w
    ELSE IF k = 0 THEN silence_fill_body(w, idx, upto, env)
    ELSE silence_fill_loop(silence_fill_loop(w, idx, upto, env, k - 1),
                           idx, upto, env, k - 1)

mix_silence_fill_idx_upto(w, idx, upto, env) ==
    [silence_fill_loop([w EXCEPT !.aborted = FALSE], idx, upto, env, PtsBits)
        EXCEPT !.aborted = @ \/ w.aborted]

RECURSIVE mix_silence_fill_from(_, _, _)
mix_silence_fill_from(w, i, env) ==
    IF i >= NUM_INPUTS THEN w
    ELSE mix_silence_fill_from(
            mix_silence_fill_idx_upto(w, i, w.mix.out_pts - w.mix.clockrate, env),
            i + 1, env)

\* a proactive pass that looks at the first input only
mix_silence_fill_first_only(w, env) ==
    IF w.mix.out_pts < U64(w.mix.clockrate) THEN w
    ELSE mix_silence_fill_idx_upto(w, 0, w.mix.out_pts - w.mix.clockrate, env)

mix_silence_fill(w, env) ==
    IF w.mix.out_pts < U64(w.mix.clockrate) THEN w
    ELSE mix_silence_fill_from(w, 0, env)

----------------------------------------------------------------------------
\* mix_resample_frame.  f is the frame pulled into mix->sink_frame with the
\* outcomes of the resampler calls made for it.  mix->swr_frame is "NULL", "valid",
\* "nobuf" (allocated, av_frame_get_buffer failed) or "freed" (dangling); a use of
\* a frame that is "nobuf" or "freed" is undefined: with f.crash the process
\* dies there (hung), without it the call goes on as the outside calls answer.

\* "dst_samples": avresample_available + av_rescale_rnd(delay + nb_samples, r, r, UP)
dst_samples_of(f) == f.avail + f.delay + f.nb

\* "if (!mix->swr_frame || mix->swr_buffers < dst_samples)"
swr_need_alloc(m, dst_samples) ==
    m.swr_frame = "NULL" \/ m.swr_buffers < dst_samples

mix_resample_frame(w, f) ==
    IF f.fmt = "s16" THEN [w EXCEPT !.frame = "sink_frame"]
    ELSE
      LET opened == IF w.mix.avresample = "NULL"
                    THEN (IF ~f.ctx_ok THEN "NULL"
                          ELSE IF f.open_ok THEN "open" ELSE "unopened")
                    ELSE w.mix.avresample
          w1 == [w EXCEPT !.mix.avresample = opened, !.convs = w.convs + 1]
      IN
      IF w.mix.avresample = "NULL" /\ ~(f.ctx_ok /\ f.open_ok)
      THEN [w1 EXCEPT !.frame = "NULL"]
      ELSE
        LET dst_samples == dst_samples_of(f)
            grow == swr_need_alloc(w1.mix, dst_samples)
            got  == av_frame_get_buffer_ok(dst_samples, f.buf_ok)
            undef == w1.mix.swr_frame = "freed"
                     \/ (~grow /\ w1.mix.swr_frame = "nobuf")
            w2 == IF ~grow THEN w1
                  ELSE IF ~f.frame_ok THEN [w1 EXCEPT !.mix.swr_frame = "NULL"]
                  ELSE IF ~got THEN [w1 EXCEPT !.mix.swr_frame = "nobuf"]
                  ELSE [w1 EXCEPT !.mix.swr_frame = "valid",
                                  !.mix.swr_buffers = dst_samples]
            w3 == [w2 EXCEPT !.allocs_swr = IF grow THEN w2.allocs_swr + 1
                                            ELSE w2.allocs_swr]
        IN  IF undef /\ f.crash THEN [w1 EXCEPT !.hung = TRUE, !.frame = "NULL"]
            ELSE IF grow /\ ~(f.frame_ok /\ got) THEN [w3 EXCEPT !.frame = "NULL"]
            ELSE IF ~f.conv_ok THEN [w3 EXCEPT !.frame = "NULL"]
            ELSE [w3 EXCEPT !.frame = "swr_frame"]

----------------------------------------------------------------------------
\* mix_add

\* the checks at the head of mix_add, without the test for a missing source
index_error_range_only(m, idx) ==
    IF idx >= NUM_INPUTS THEN "index out of range" ELSE ""

\* the checks at the head of mix_add: "" when the call goes on
index_error(m, idx) ==
    IF idx >= NUM_INPUTS THEN "index out of range"
    ELSE IF ~m.src_ctxs[idx] THEN "mixer not initialized"
    ELSE ""

\* "adjust for media started late": the offset of input idx after the test
pts_offset(m, idx, pts) ==
    IF m.pts_offs[idx] = UNSET THEN U64(m.out_pts - pts) ELSE m.pts_offs[idx]

\* running counters assigned without the comparisons
update_counters_assign(m, idx, next_pts) ==
    [m EXCEPT !.out_pts = next_pts, !.in_pts[idx] = next_pts]

\* "update running counters"
update_counters(m, idx, next_pts) ==
    [m EXCEPT !.out_pts = IF next_pts > m.out_pts THEN next_pts ELSE m.out_pts,
              !.in_pts[idx] = IF next_pts > m.in_pts[idx] THEN next_pts
                              ELSE m.in_pts[idx]]

\* av_frame_free(&frame) at the label err: frees whatever frame points to
free_frame(w) ==
    CASE w.frame = "NULL" -> w
      [] w.frame = "input" -> [w EXCEPT !.freed = Append(w.freed, "input"), !.frame = "NULL"]
      [] w.frame = "sink_frame" ->
            [w EXCEPT !.freed = Append(w.freed, "sink_frame"), !.frame = "NULL",
                      !.mix.sink_frame = "freed"]
      [] w.frame = "swr_frame" ->
            [w EXCEPT !.freed = Append(w.freed, "swr_frame"), !.frame = "NULL",
                      !.mix.swr_frame = "freed"]

\* a loop that goes on after the sink has failed
output_add_ignored(f) == FALSE

\* "if (ret) return -1" after output_add
output_add_failed(f) == ~f.sink_ok

\* the drain loop; drain is the sequence of what the engine answers to the pulls
RECURSIVE mix_add_drain(_, _)
mix_add_drain(w, drain) ==
    LET f == Head(drain)
        w0 == [w EXCEPT !.pulls = w.pulls + 1]
    IN
    IF f.pull = "eagain" THEN [w |-> w0, ret |-> 0, err |-> ""]
    ELSE IF f.pull = "error"
    THEN [w |-> free_frame(w0), ret |-> -1, err |-> "failed to get frame from mixer"]
    ELSE IF w0.mix.sink_frame = "freed" /\ f.crash
    THEN [w |-> [w0 EXCEPT !.hung = TRUE], ret |-> 0, err |-> ""]
    ELSE
      LET w1 == mix_resample_frame(w0, f)
          w2 == [w1 EXCEPT !.sunk = Append(w1.sunk, [frame |-> w1.frame, ok |-> f.sink_ok,
                                                    pull |-> w1.pulls])]
      IN  IF w1.hung THEN [w |-> w1, ret |-> 0, err |-> ""]
          ELSE IF output_add_failed(f) THEN [w |-> w2, ret |-> -1, err |-> ""]
          ELSE mix_add_drain(w2, Tail(drain))

mix_add_result(m, a, idx, pts, nb, env) ==
    LET w0 == [mix |-> m, avf |-> a, fwd |-> <<>>, nsil |-> 0, aborted |-> FALSE,
               hung |-> FALSE, freed |-> <<>>, pulls |-> 0, sunk |-> <<>>,
               frame |-> "input", convs |-> 0, allocs_swr |-> 0]
        e0 == index_error(m, idx)
    IN
    IF e0 # "" THEN [w |-> free_frame(w0), ret |-> -1, err |-> e0, accepted |-> FALSE,
                     forwarded |-> FALSE, fpts |-> 0, next_pts |-> 0]
    ELSE
      LET offs == pts_offset(m, idx, pts)
          w1   == [w0 EXCEPT !.mix.pts_offs[idx] = offs]
          fpts == U64(pts + offs)
          w2   == mix_silence_fill_idx_upto(w1, idx, fpts, env)
          next_pts == U64(fpts + nb)
      IN
      IF w2.hung THEN [w |-> w2, ret |-> 0, err |-> "", accepted |-> TRUE,
                       forwarded |-> FALSE, fpts |-> fpts, next_pts |-> next_pts]
      ELSE
        LET w3 == Forward(w2, idx, "real", fpts, nb, env.add_ok)
        IN
        IF ~env.add_ok
        THEN [w |-> free_frame(w3), ret |-> -1, err |-> "failed to add frame to mixer",
              accepted |-> TRUE, forwarded |-> FALSE, fpts |-> fpts, next_pts |-> next_pts]
        ELSE
          LET w4 == [w3 EXCEPT !.mix = update_counters(w3.mix, idx, next_pts)]
              w5 == free_frame(w4)
              w6 == mix_silence_fill(w5, env)
          IN
          IF w6.hung THEN [w |-> w6, ret |-> 0, err |-> "", accepted |-> TRUE,
                           forwarded |-> TRUE, fpts |-> fpts, next_pts |-> next_pts]
          ELSE
            LET d == mix_add_drain(w6, env.drain)
            IN  [w |-> d.w, ret |-> d.ret, err |-> d.err, accepted |-> TRUE,
                 forwarded |-> TRUE, fpts |-> fpts, next_pts |-> next_pts]

\* one mix_add call with arguments and outside outcomes from the given sets
mix_add_call(Idxs, Ptss, Nbs, Envs) ==
    /\ ~hung
    /\ calls < MaxCalls
    /\ calls' = calls + 1
    /\ \E idx \in Idxs, pts \in Ptss, nb \in Nbs, env \in Envs :
          \E r \in {mix_add_result(mix, avf, idx, pts, nb, env)} :
              /\ mix' = r.w.mix
              /\ avf' = r.w.avf
              /\ hung' = r.w.hung
              /\ last' = [NoCall EXCEPT !.op = "add", !.ret = r.ret, !.err = r.err,
                                        !.idx = idx, !.pts = pts, !.nb = nb,
                                        !.out0 = mix.out_pts,
                                        !.first = r.accepted /\ first_offs[idx] = -1,
                                        !.fpts = r.fpts, !.next_pts = r.next_pts,
                                        !.accepted = r.accepted,
                                        !.forwarded = r.forwarded,
                                        !.aborted = r.w.aborted,
                                        !.fwd = r.w.fwd, !.freed = r.w.freed,
                                        !.pulls = r.w.pulls, !.sunk = r.w.sunk,
                                        !.frame = r.w.frame,
                                        !.drain = env.drain,
                                        !.convs = r.w.convs,
                                        !.allocs_swr = r.w.allocs_swr,
                                        !.swr0 = mix.swr_buffers,
                                        !.in0 = mix.in_pts]
              /\ first_offs' = IF r.accepted /\ first_offs[idx] = -1
                               THEN [first_offs EXCEPT ![idx] = U64(mix.out_pts - pts)]
                               ELSE first_offs
              /\ caller' = IF ~r.accepted THEN caller
                           ELSE IF caller[idx] = -1 \/ caller[idx] = pts
                           THEN [caller EXCEPT ![idx] = pts + nb]
                           ELSE [caller EXCEPT ![idx] = -2]
    /\ UNCHANGED <<allocs, idx_returned>>

----------------------------------------------------------------------------
\* the calls offered

AllFails == 0 .. Len(BuildSteps)

EAGAIN == [pull |-> "eagain"]
PullError == [pull |-> "error"]
Pulled(fmt, sink_ok) ==
    [pull |-> "frame", fmt |-> fmt, nb |-> 8, avail |-> 0, delay |-> 0,
     ctx_ok |-> TRUE, open_ok |-> TRUE, frame_ok |-> TRUE, buf_ok |-> TRUE,
     conv_ok |-> TRUE, sink_ok |-> sink_ok, crash |-> FALSE]

EnvOk == [add_ok |-> TRUE, sil_fail |-> 0, buf_ok |-> TRUE, drain |-> <<EAGAIN>>]

AddFails == [EnvOk EXCEPT !.add_ok = FALSE]
BufferFails == [EnvOk EXCEPT !.buf_ok = FALSE]
SilenceFails == [EnvOk EXCEPT !.sil_fail = 1]
OneFrame == [EnvOk EXCEPT !.drain = <<Pulled("s16", TRUE), EAGAIN>>]

\* the session's life cycle: index allocation, every way a build can fail, and
\* submissions to a valid and to an out-of-range index
Next ==
    \/ mix_get_index
    \/ mix_config_call({400, 800}, {1}, AllFails)
    \/ mix_add_call({0, NUM_INPUTS}, {0}, {8}, {EnvOk, OneFrame})

Spec == Init /\ [][Next]_vars

\* two inputs on one clock rate: short and long frames, repeated and contiguous
\* timestamps, a first timestamp above a later one (the offset wraps)
NextTimeline ==
    \/ mix_config_call({400}, {1}, {0, 6})
    \/ mix_add_call({0, 1}, {0, 8}, {8, 404}, {EnvOk, AddFails})

SpecTimeline == Init /\ [][NextTimeline]_vars

\* sequences of mix_config and mix_add over two clock rates
NextDrift ==
    \/ mix_config_call({400, 800}, {1}, {0})
    \/ mix_add_call({0, 1}, {0}, {8, 404}, {EnvOk, AddFails, BufferFails})

SpecDrift == Init /\ [][NextDrift]_vars

\* first timestamps below, at and above the output position
NextOffset ==
    \/ mix_config_call({400}, {1}, {0})
    \/ mix_add_call({0, 1}, {0, 1, 8}, {8}, {EnvOk})

SpecOffset == Init /\ [][NextOffset]_vars

\* what the engine and the resampler can answer to one pull: a frame in the
\* canonical format or in another one, with at most one of the outside calls
\* made for it failing
ResampleFails == {"none", "ctx", "open", "frame", "buf", "conv", "sink", "crash"}

PulledWith(fmt, nb, fail) ==
    [Pulled(fmt, fail # "sink") EXCEPT
        !.nb = nb, !.ctx_ok = fail # "ctx", !.open_ok = fail # "open",
        !.frame_ok = fail # "frame", !.buf_ok = fail # "buf",
        !.conv_ok = fail # "conv", !.crash = fail = "crash"]

FirstPulls ==
    {PulledWith("fltp", 8, fail) : fail \in {"none", "conv", "sink", "crash"}}
    \cup {PulledWith("s16", 8, fail) : fail \in {"none", "sink", "crash"}}

LaterPulls ==
    {PulledWith("s16", 8, "none"), PulledWith("fltp", 8, "none"),
     PulledWith("s16", 8, "sink")}

\* the answers of the engine to the pulls of one mix_add: up to two frames, then
\* EAGAIN or an error
DrainScripts ==
    {<<t>> : t \in {EAGAIN, PullError}}
    \cup {<<f, t>> : f \in FirstPulls, t \in {EAGAIN, PullError}}
    \cup {<<f, g, t>> : f \in FirstPulls, g \in LaterPulls, t \in {EAGAIN, PullError}}

DrainEnvs == {[EnvOk EXCEPT !.drain = d] : d \in DrainScripts}

\* one input, short frames, and every answer of the engine to the drain
NextDrain ==
    \/ mix_config_call({400}, {1}, {0})
    \/ mix_add_call({0}, {0}, {8}, DrainEnvs \cup {AddFails})

SpecDrain == Init /\ [][NextDrain]_vars

\* one frame pulled per mix_add, of three sizes, with every failure of the resampler
ResampleEnvs ==
    {[EnvOk EXCEPT !.drain = <<PulledWith("fltp", nb, fail), EAGAIN>>] :
        nb \in {8, 16, 24}, fail \in ResampleFails}
    \cup {[EnvOk EXCEPT !.drain = <<PulledWith("s16", 8, "none"), EAGAIN>>]}

NextResample ==
    \/ mix_config_call({400, 800}, {1}, {0})
    \/ mix_add_call({0}, {0}, {8}, ResampleEnvs)

SpecResample == Init /\ [][NextResample]_vars

\* a clock rate below 100 next to one above, frames shorter and longer than a second
NextProgress ==
    \/ mix_config_call({50, 400}, {1}, {0})
    \/ mix_add_call({0, 1}, {0, 8}, {8, 60}, {EnvOk})

SpecProgress == Init /\ [][NextProgress]_vars

\* two inputs, timestamps with a gap, and a failing write of a real frame or of
\* the first silence chunk
NextBookkeeping ==
    \/ mix_config_call({400}, {1}, {0})
    \/ mix_add_call({0, 1}, {0, 24}, {8, 404}, {EnvOk, AddFails, SilenceFails})

SpecBookkeeping == Init /\ [][NextBookkeeping]_vars

\* sessions reconfigured between clock rates and channel counts, with frames long
\* enough to have silence written
NextFormat ==
    \/ mix_config_call({400, 800}, {1, 2}, {0})
    \/ mix_add_call({0, 1}, {0}, {8, 404}, {EnvOk})

SpecFormat == Init /\ [][NextFormat]_vars

\* mix_silence_fill_idx_upto on its own: sessions configured with a clock rate,
\* input 0 at position p and input 1 at the output position, with no silence
\* frame yet or with the one a session at 400 Hz has created
SilenceInit ==
    /\ \E r \in {50, 400, 800}, p \in {0, 6},
          tmpl \in {NoSilence, [st |-> "ok", cap |-> 4, rate |-> 400, ch |-> 1]} :
          LET c == mix_config_result([mix |-> mix_new, avf |-> NoGraph, allocs |-> 0],
                                     r, 1, 0).w
          IN  /\ mix = [c.mix EXCEPT !.in_pts[0] = p, !.in_pts[1] = 30, !.out_pts = 30,
                                     !.pts_offs[0] = 0, !.pts_offs[1] = p,
                                     !.silence_frame = tmpl]
              /\ avf = [c.avf EXCEPT !.src_end[0] = IF p = 0 THEN -1 ELSE p,
                                     !.src_end[1] = 30]
              /\ allocs = c.allocs
    /\ last = NoCall
    /\ idx_returned = <<>>
    /\ first_offs = [i \in Inputs |-> -1]
    /\ caller = [i \in Inputs |-> -1]
    /\ hung = FALSE
    /\ calls = 0

\* one call of mix_silence_fill_idx_upto
silence_fill_call(Idxs, Uptos, Envs) ==
    /\ last.op = "new"
    /\ \E idx \in Idxs, upto \in Uptos, env \in Envs :
          \E r \in {mix_silence_fill_idx_upto(
                        [mix |-> mix, avf |-> avf, fwd |-> <<>>, nsil |-> 0,
                         aborted |-> FALSE, hung |-> FALSE, freed |-> <<>>, pulls |-> 0,
                         sunk |-> <<>>, frame |-> "input", convs |-> 0, allocs_swr |-> 0],
                        idx, upto, env)} :
              /\ mix' = r.mix
              /\ avf' = r.avf
              /\ hung' = r.hung
              /\ last' = [NoCall EXCEPT !.op = "fill", !.idx = idx, !.pts = upto,
                                        !.fwd = r.fwd, !.aborted = r.aborted,
                                        !.out0 = mix.out_pts, !.in0 = mix.in_pts]
    /\ UNCHANGED <<allocs, idx_returned, first_offs, caller, calls>>

NextSilence ==
    silence_fill_call({0, 1, 2}, {0, 6, 17, 30}, {EnvOk, BufferFails, SilenceFails})

SpecSilence == SilenceInit /\ [][NextSilence]_vars

----------------------------------------------------------------------------
\* the topology as a whole

Complete(m, a) ==
    /\ m.graph # 0 /\ m.amix_ctx /\ m.sink_ctx
    /\ \A i \in Inputs : m.src_ctxs[i] /\ a.src_linked[i]
    /\ a.sink_linked /\ a.configured

Absent(m, a) ==
    /\ m.graph = 0 /\ ~m.amix_ctx /\ ~m.sink_ctx
    /\ \A i \in Inputs : ~m.src_ctxs[i]
    /\ a = NoGraph

----------------------------------------------------------------------------
C2_OffsetMapping ==
    (last.op = "add" /\ last.accepted /\ ~hung)
        => last.fpts = IF last.first THEN last.out0
                       ELSE U64(last.pts + first_offs[last.idx])

\* C3: once an input's first frame has been accepted, pts_offs of that input is the
\* offset computed for that frame, whatever is called later.
C3_OffsetSetOnce ==
    \A i \in Inputs : first_offs[i] # -1 => mix.pts_offs[i] = first_offs[i]

\* C4: no call, successful or failing, decreases out_pts or any in_pts[i].
C4_Monotonic ==
    [][/\ mix'.out_pts >= mix.out_pts
       /\ \A i \in Inputs : mix'.in_pts[i] >= mix.in_pts[i]]_vars

\* a frame that ends before the output position and before its input's position
\* has been forwarded
C4_Witness ==
    /\ last.op = "add" /\ last.forwarded
    /\ last.next_pts < last.out0
    /\ last.next_pts < mix.in_pts[last.idx]

\* C5: no frame forwarded to an input's buffer source starts before the end of the
\* frame forwarded to it before, for an input whose source timestamps are contiguous.
C5_NonOverlap ==
    (last.op = "add" /\ last.accepted /\ caller[last.idx] >= 0)
        => \A k \in DOMAIN last.fwd :
              (last.fwd[k].idx = last.idx /\ last.fwd[k].ok)
                  => last.fwd[k].pts >= last.fwd[k].prev_end

\* what a call that took the early exit of mix_add has done
Rejected(l) ==
    /\ l.ret = -1 /\ ~l.accepted
    /\ l.freed = <<"input">>
    /\ l.fwd = <<>> /\ l.pulls = 0

\* C6 as stated: a mix_add for an index out of range, or never returned by
\* mix_get_index, or made while the session is not Configured, fails, releases the
\* frame and changes nothing.
C6_IndexErrors ==
    [][(calls' = calls + 1
         /\ (\/ last'.idx >= NUM_INPUTS
             \/ \A k \in DOMAIN idx_returned : idx_returned[k] # last'.idx
             \/ ~Complete(mix, avf)))
        => (Rejected(last') /\ mix' = mix /\ avf' = avf)]_vars

\* C6 amended: a mix_add for an index out of range or made while the session is not
\* Configured fails, releases the frame and changes nothing; a mix_add for an index
\* in range made while the session is Configured is accepted, whether or not
\* mix_get_index ever returned that index.
C6_IndexErrorsAmended ==
    [][calls' = calls + 1
        => IF last'.idx >= NUM_INPUTS \/ ~Complete(mix, avf)
           THEN Rejected(last') /\ mix' = mix /\ avf' = avf
           ELSE last'.accepted]_vars

\* an out-of-range submission was rejected in a session that holds audio
C6_Witness ==
    /\ last.op = "add" /\ last.err = "index out of range" /\ last.ret = -1
    /\ Complete(mix, avf) /\ mix.out_pts > 0

\* C7 as stated: the first NUM_INPUTS calls return distinct values in [0, NUM_INPUTS),
\* no value is returned twice, and the call after them fails.
C7_IndexAllocation ==
    /\ \A k \in DOMAIN idx_returned :
          /\ k <= NUM_INPUTS => idx_returned[k] \in Inputs
          /\ \A j \in DOMAIN idx_returned : j # k => idx_returned[j] # idx_returned[k]
    /\ (last.op = "get_index" /\ Len(idx_returned) > NUM_INPUTS) => last.err # ""

\* C7 amended: the k-th call returns k - 1 modulo the range of unsigned int and never
\* fails: the first NUM_INPUTS calls return the distinct values 0 .. NUM_INPUTS - 1,
\* and the call after them returns NUM_INPUTS, which is no index of an input.
C7_IndexAllocationAmended ==
    /\ \A k \in DOMAIN idx_returned : idx_returned[k] = (k - 1) % IdxMod
    /\ last.op = "get_index"
         => last.err = "" /\ last.ret = (Len(idx_returned) - 1) % IdxMod
    /\ mix.next_idx = Len(idx_returned) % IdxMod
    /\ Len(idx_returned) > NUM_INPUTS => idx_returned[NUM_INPUTS + 1] = NUM_INPUTS

\* more calls than there are inputs have been made, the last after the counter
\* has wrapped
C7_Witness ==
    /\ last.op = "get_index"
    /\ Len(idx_returned) > IdxMod
    /\ last.ret = 0

\* C8: mix_config with the clock rate and channel count the session is Configured
\* with returns 0 and leaves the topology, its identity and its queues as they are.
C8_ConfigIdempotent ==
    [][(last'.op = "config" /\ Complete(mix, avf)
         /\ last'.rate = mix.clockrate /\ last'.ch = mix.channels)
        => (last'.ret = 0 /\ mix' = mix /\ avf' = avf /\ allocs' = allocs)]_vars

\* the second of two equal mix_config calls has returned, with audio queued
C8_Witness ==
    /\ last.op = "config" /\ last.noop /\ last.ret = 0
    /\ Complete(mix, avf)
    /\ avf.src_end[0] > 0

\* C9: mix_config returns 0 only with the session Configured, its topology complete.
C9_SuccessMeansConfigured ==
    (last.op = "config" /\ last.ret = 0) => Complete(mix, avf)

\* C10: the topology is complete or entirely absent whenever a call has returned, a
\* failing mix_config leaves it absent, and without a topology mix_add is rejected.
C10_AtomicBuild ==
    [][/\ Complete(mix', avf') \/ Absent(mix', avf')
       /\ (last'.op = "config" /\ last'.ret = -1) => Absent(mix', avf')
       /\ (calls' = calls + 1 /\ ~Complete(mix, avf))
            => (Rejected(last') /\ Absent(mix', avf'))]_vars

\* the build failed at the creation of the third source endpoint
C10_Witness ==
    /\ last.op = "config" /\ last.ret = -1 /\ last.fail > 0
    /\ BuildSteps[last.fail] = [call |-> "avfilter_graph_create_filter abuffer", i |-> 2]
    /\ Absent(mix, avf)

\* C11: when output_add fails for a drained frame, mix_add returns -1 at once: that
\* frame is the last one pulled and the last one handed to the sink, the sink was
\* called once for it, and the answers the engine still had stay unpulled.
C11_SinkFailure ==
    (last.op = "add" /\ ~hung)
        => \A k \in DOMAIN last.sunk :
              ~last.sunk[k].ok
                  => /\ last.ret = -1
                     /\ k = Len(last.sunk)
                     /\ last.pulls = last.sunk[k].pull
                     /\ \A j \in DOMAIN last.sunk : j # k => last.sunk[j].pull # last.pulls

\* the sink failed on the first of two frames the engine had ready
C11_Witness ==
    /\ last.op = "add" /\ ~hung /\ last.ret = -1
    /\ Len(last.sunk) = 1 /\ ~last.sunk[1].ok
    /\ last.pulls = 1 /\ Len(last.drain) = 3
    /\ last.drain[2].pull = "frame"

\* the pulls of the last mix_add that returned a frame
FramePulls(l) == {j \in 1 .. l.pulls : l.drain[j].pull = "frame"}

\* the drain of the last mix_add stopped as the protocol says: the call pulled at
\* least once, every pull but the last returned a frame whose output_add
\* succeeded, output_add was called once per frame pulled, in pull order, the
\* call returned 0 only after EAGAIN and -1 after any other pull failure
DrainStops(l) ==
    /\ l.pulls >= 1
    /\ Len(l.sunk) = Cardinality(FramePulls(l))
    /\ \A k \in DOMAIN l.sunk : l.sunk[k].pull = k /\ (k < l.pulls => l.sunk[k].ok)
    /\ l.ret = 0 => l.drain[l.pulls].pull = "eagain"
    /\ l.drain[l.pulls].pull = "error" => l.ret = -1
    /\ l.drain[l.pulls].pull = "eagain" => l.ret = 0

\* C12 as stated: after a successful forward mix_add pulls until EAGAIN, hands every
\* pulled frame to the sink exactly once and in pull order, returns 0 only if the
\* last pull reported EAGAIN and -1 on any other pull failure.
C12_DrainProtocol ==
    (last.op = "add" /\ ~hung /\ last.forwarded)
        => /\ DrainStops(last)
           /\ \A k \in DOMAIN last.sunk :
                 last.sunk[k].frame = IF last.drain[k].fmt = "s16" THEN "sink_frame"
                                      ELSE "swr_frame"

\* C13: the sink is never called for a pull whose conversion yielded no frame; it
\* gets a converted or a pass-through frame only, and later calls are served.
C13_ConversionFailure ==
    (last.op = "add" /\ ~hung)
        => \A k \in DOMAIN last.sunk :
              last.sunk[k].frame \in {"sink_frame", "swr_frame"}

\* C14: every mix_add that returns has released the submitted frame once and
\* nothing else; sink_frame, swr_frame and silence_frame are still the session's.
C14_FrameOwnership ==
    (last.op = "add" /\ ~hung)
        => /\ last.freed = <<"input">>
           /\ mix.sink_frame = "valid"
           /\ mix.swr_frame # "freed"

\* C15: every mix_add call returns: no call is left in the silence-fill loop (the
\* only place where a call can stop before its first pull from the engine).
C15_ForwardProgress ==
    ~(hung /\ last.op = "add" /\ last.pulls = 0)

Max(S) == CHOOSE x \in S : \A y \in S : y <= x

\* the end timestamps of the frames the last mix_add forwarded successfully to input i
ForwardedEnds(l, i) ==
    {l.fwd[k].pts + l.fwd[k].nb : k \in {j \in DOMAIN l.fwd : l.fwd[j].idx = i /\ l.fwd[j].ok}}

\* C16: a mix_add moves in_pts[i] to the maximum of its old value and the ends of the
\* frames (real or silence) it forwarded successfully to input i, and out_pts to
\* the maximum of its old value and the ends of all frames it forwarded
\* successfully; a failed forward moves neither.
C16_BookkeepingFollowsForwards ==
    (last.op = "add" /\ ~hung)
        => /\ \A i \in Inputs :
                 mix.in_pts[i] = Max({last.in0[i]} \cup ForwardedEnds(last, i))
           /\ mix.out_pts = Max({last.out0} \cup UNION {ForwardedEnds(last, i) : i \in Inputs})

\* C17: between operations no input is ahead of the output position, and the
\* output position is the largest of the inputs' positions.
C17_OutputIsMaxInput ==
    ~hung => /\ \A i \in Inputs : mix.in_pts[i] <= mix.out_pts
             /\ mix.out_pts = Max({mix.in_pts[i] : i \in Inputs})

\* what C18 says of a call that has returned: in_pts[idx] is max(p, upto), the
\* chunks are contiguous from p, each of 1 .. clockrate / 100 samples and only the
\* last one shorter, and nothing else has moved
SilenceFillResult(l, m) ==
    LET p == l.in0[l.idx]
        n == Len(l.fwd)
        chunk == CDiv(m.clockrate, 100)
    IN  /\ m.in_pts[l.idx] = IF p < l.pts THEN l.pts ELSE p
        /\ p >= l.pts => n = 0
        /\ \A k \in 1 .. n :
              /\ l.fwd[k].idx = l.idx /\ l.fwd[k].kind = "silence"
              /\ l.fwd[k].pts = IF k = 1 THEN p ELSE l.fwd[k - 1].pts + l.fwd[k - 1].nb
              /\ l.fwd[k].nb >= 1 /\ l.fwd[k].nb <= chunk
              /\ k < n => l.fwd[k].nb = chunk
        /\ \A i \in Inputs \ {l.idx} : m.in_pts[i] = l.in0[i]
        /\ m.out_pts = l.out0

C19_SilenceTemplateCurrent ==
    (last.op = "add" /\ ~hung)
        => \A k \in DOMAIN last.fwd :
              last.fwd[k].kind = "silence"
                  => /\ last.fwd[k].tmpl.rate = mix.clockrate
                     /\ last.fwd[k].tmpl.ch = mix.channels
                     /\ last.fwd[k].tmpl.cap = CDiv(mix.clockrate, 100)

\* C20: no call lowers swr_buffers; a mix_add that pulls one frame allocates the
\* resample frame only if the samples required exceed swr_buffers as it was, and
\* for a frame in the canonical format hands mix->sink_frame itself to the sink
\* without a call to the converter and without touching the resample frame.
C20_ResampleBufferGrowth ==
    [][/\ mix'.swr_buffers >= mix.swr_buffers
       /\ (calls' = calls + 1 /\ ~hung' /\ Len(last'.sunk) = 1)
            => LET f == last'.drain[1]
               IN  /\ last'.allocs_swr = 1 => dst_samples_of(f) > mix.swr_buffers
                   /\ last'.allocs_swr = 0 => mix'.swr_frame = mix.swr_frame
                   /\ f.fmt = "s16"
                        => /\ last'.sunk[1].frame = "sink_frame"
                           /\ last'.convs = 0 /\ last'.allocs_swr = 0
                           /\ mix'.avresample = mix.avresample
                           /\ mix'.swr_frame = mix.swr_frame]_vars

====
